---- MODULE Spec2Model ----
(* Model of scripts/ovh-dns.py: the record operations (list_records,        *)
(* add_record, delete_record, refresh_zone) on top of ovh_call, the         *)
(* public-IP resolver get_server_ip, and the command dispatcher main.       *)
(* The DNS provider is the environment: a zone of records behind a REST     *)
(* interface whose every call either answers 200, answers an error status,  *)
(* or makes the HTTP library raise.                                          *)
EXTENDS Integers, Sequences, FiniteSets

\* ---------------------------------------------------------------- bounds
MaxInitRecords == 2
MaxMainRecords == 1
MaxFaults == 1
MaxCallIdx == 12
MaxBody == 2

\* ------------------------------------------------------------ value sets
\* Text is a sequence of characters; the empty sequence is Python's falsy "".
NoText == << >>
Subdomains == {<<"w">>, NoText}
\* main hands add_record and delete_record a non-empty subdomain only.
ArgSubdomains == Subdomains \ {NoText}
Types == {"A", "CNAME"}
Targets == {<<"1">>, <<"2">>}
DomainDot == <<"d", ".">>
DefaultTtl == 3600
Chars == {" ", "7"}
StatusOk == 200
StatusErr == 500

SeqsUpTo(S, n) == UNION {[1..k -> S] : k \in 0..n}

\* ------------------------------------------------------------- fault plan
\* A fault plan names, by position in the invocation's sequence of provider
\* calls, the calls that do not answer 200: "err" is an error status, "exc"
\* is an exception raised by the HTTP library.
Faults == (1..MaxCallIdx) \X {"err", "exc"}

RECURSIVE PlansUpTo(_)
PlansUpTo(n) ==
  IF n = 0 THEN {{}}
  ELSE LET P == PlansUpTo(n - 1)
       IN P \cup UNION {{p \cup {f} : f \in {g \in Faults : \A h \in p : h[1] # g[1]}} :
                           p \in P}

FaultPlans == PlansUpTo(MaxFaults)

Outcome(faults, i) ==
  IF \E f \in faults : f[1] = i
    THEN (CHOOSE f \in faults : f[1] = i)[2]
    ELSE "ok"

\* ---------------------------------------------------------------- records
Rec(id, sub, type, target) ==
  [id |-> id, subDomain |-> sub, fieldType |-> type, target |-> target,
   ttl |-> DefaultTtl]

Ids(zone) == {r.id : r \in zone}

RecordOf(zone, id) == CHOOSE r \in zone : r.id = id

RECURSIVE SortedIds(_)
SortedIds(S) ==
  IF S = {} THEN << >>
  ELSE LET m == CHOOSE x \in S : \A y \in S : x <= y
       IN <<m>> \o SortedIds(S \ {m})

\* GET /domain/zone/{domain}/record[?fieldType=&subDomain=]: the ids of the
\* records passing the filters the path carries, in ascending order. A
\* filter is in the path only when its argument is truthy (lines 98-101).
ProviderList(zone, typeFilter, subFilter) ==
  SortedIds({r.id : r \in {x \in zone :
                /\ (typeFilter # "" => x.fieldType = typeFilter)
                /\ (subFilter # NoText => x.subDomain = subFilter)}})

\* Status the provider answers when the call is not disturbed.
ProviderStatus(zone, kind, arg) ==
  IF kind \in {"detail", "delete"} /\ arg \notin Ids(zone)
    THEN StatusErr ELSE StatusOk

\* ------------------------------------------------------------------ world
\* The state one invocation threads through its calls.
\*   exc: "none", "raise" (uncaught exception), "exit1" (sys.exit(1)).
World(zone, nextId, creds, faults) ==
  [zone |-> zone, nextId |-> nextId, creds |-> creds, faults |-> faults,
   trace |-> << >>, out |-> << >>, exc |-> "none", status |-> 0]

\* print(...), kept as the tag of the message.
Say(w, msg) == [w EXCEPT !.out = Append(@, msg)]

\* One authenticated call: the credentials check, then the request. The
\* trace keeps every request with the status answered, 0 when the HTTP
\* library raised instead of answering (the request then changes nothing:
\* the exception comes from GET /auth/time or from a connection that never
\* reached the provider). status is response.status_code.
ovh_call(w, method, kind, arg) ==
  IF w.exc # "none" THEN w
  ELSE IF ~w.creds
    THEN [Say(w, "creds_missing") EXCEPT !.exc = "exit1"]
  ELSE IF method \notin {"GET", "POST", "PUT", "DELETE"}
    THEN [w EXCEPT !.exc = "raise"]
  ELSE
    LET o == Outcome(w.faults, Len(w.trace) + 1)
        st == IF o = "exc" THEN 0
              ELSE IF o = "err" THEN StatusErr
              ELSE ProviderStatus(w.zone, kind, arg)
        call == [m |-> method, k |-> kind, st |-> st]
        done == st = StatusOk
    IN [w EXCEPT
          !.trace = Append(@, call),
          !.status = st,
          !.exc = IF o = "exc" THEN "raise" ELSE @,
          !.zone = IF done /\ kind = "delete"
                     THEN {r \in @ : r.id # arg}
                   ELSE IF done /\ kind = "create"
                     THEN @ \cup {Rec(w.nextId, arg.subDomain, arg.fieldType, arg.target)}
                   ELSE @,
          !.nextId = IF done /\ kind = "create" THEN @ + 1 ELSE @]

\* ----------------------------------------------------------- list_records
\* A result is a pair [w, ret]: the world after the call and the value
\* returned; when something was raised (w.exc # "none") nothing is returned
\* and ret is the empty sequence or FALSE.
\* Each operator hands the response of its provider call to the operator
\* that models the statements after the call.
RECURSIVE ListLoop(_, _, _, _)
RECURSIVE ListDetail(_, _, _, _)

\* for record_id in record_ids: ...
ListLoop(w, ids, k, records) ==
  IF w.exc # "none" THEN [w |-> w, ret |-> << >>]
  ELSE IF k > Len(ids) THEN [w |-> w, ret |-> records]
  ELSE ListDetail(ovh_call(w, "GET", "detail", ids[k]), ids, k, records)

\* if r.status_code == 200: records.append(r.json())
ListDetail(r, ids, k, records) ==
  ListLoop(r, ids, k + 1,
           IF r.exc = "none" /\ r.status = 200
             THEN Append(records, RecordOf(r.zone, ids[k]))
             ELSE records)

ListIds(r, record_type, subdomain) ==
  IF r.exc # "none" THEN [w |-> r, ret |-> << >>]
  ELSE IF r.status # 200
    THEN [w |-> Say(r, "error_listing"), ret |-> << >>]
  ELSE ListLoop(r, ProviderList(r.zone, record_type, subdomain), 1, << >>)

list_records(w, record_type, subdomain) ==
  ListIds(ovh_call(w, "GET", "list", 0), record_type, subdomain)

\* A value is returned only if nothing was raised on the way.
Returned(w, v) == [w |-> w, ret |-> v /\ w.exc = "none"]

\* ----------------------------------------------------------- refresh_zone
RefreshResponse(r) ==
  IF r.exc # "none" THEN [w |-> r, ret |-> FALSE]
  ELSE IF r.status \in {200, 204}
    THEN [w |-> Say(r, "refreshed"), ret |-> TRUE]
  ELSE [w |-> Say(r, "refresh_warning"), ret |-> FALSE]

refresh_zone(w) == RefreshResponse(ovh_call(w, "POST", "refresh", 0))

\* ---------------------------------------------------------- delete_record
RECURSIVE DeleteLoop(_, _, _, _, _)
RECURSIVE DeleteResponse(_, _, _, _, _)

\* for rec in records: if rec.get('subDomain') == subdomain: ...
DeleteLoop(w, records, k, subdomain, deleted) ==
  IF w.exc # "none" \/ k > Len(records) THEN [w |-> w, ret |-> deleted]
  ELSE IF records[k].subDomain # subdomain
    THEN DeleteLoop(w, records, k + 1, subdomain, deleted)
  ELSE DeleteResponse(ovh_call(w, "DELETE", "delete", records[k].id),
                      records, k, subdomain, deleted)

DeleteResponse(r, records, k, subdomain, deleted) ==
  IF r.exc # "none" THEN [w |-> r, ret |-> deleted]
  ELSE IF r.status \in {200, 204}
    THEN DeleteLoop(Say(r, "deleted"), records, k + 1, subdomain, TRUE)
  ELSE DeleteLoop(Say(r, "error_deleting"), records, k + 1, subdomain, deleted)

\* DeleteEnd without the refresh_zone call.
DeleteEnd_no_refresh(d, records) ==
  IF d.w.exc # "none" THEN [w |-> d.w, ret |-> FALSE]
  ELSE IF d.ret THEN [w |-> d.w, ret |-> TRUE]
  ELSE IF records = << >> THEN [w |-> Say(d.w, "not_found"), ret |-> FALSE]
  ELSE [w |-> d.w, ret |-> FALSE]

\* DeleteEnd with "elif records" for "elif not records".
DeleteEnd_elif_records(d, records) ==
  IF d.w.exc # "none" THEN [w |-> d.w, ret |-> FALSE]
  ELSE IF d.ret THEN Returned(refresh_zone(d.w).w, TRUE)
  ELSE IF records # << >> THEN [w |-> Say(d.w, "not_found"), ret |-> FALSE]
  ELSE [w |-> d.w, ret |-> FALSE]

\* if deleted: refresh_zone(domain) / elif not records: print / return deleted
DeleteEnd(d, records) ==
  IF d.w.exc # "none" THEN [w |-> d.w, ret |-> FALSE]
  ELSE IF d.ret THEN Returned(refresh_zone(d.w).w, TRUE)
  ELSE IF records = << >> THEN [w |-> Say(d.w, "not_found"), ret |-> FALSE]
  ELSE [w |-> d.w, ret |-> FALSE]

DeleteListed(l, subdomain) ==
  DeleteEnd(DeleteLoop(l.w, l.ret, 1, subdomain, FALSE), l.ret)

delete_record(w, subdomain, record_type) ==
  DeleteListed(list_records(w, record_type, subdomain), subdomain)

\* ------------------------------------------------------------- add_record
\* The loop over the records listed at entry; returned tells whether the
\* loop left the function through "return True".
RECURSIVE AddLoop(_, _, _, _, _, _)
AddLoop(w, existing, k, subdomain, target, record_type) ==
  IF w.exc # "none" \/ k > Len(existing) THEN [w |-> w, returned |-> FALSE]
  ELSE IF ~(existing[k].subDomain = subdomain /\ existing[k].fieldType = record_type)
    THEN AddLoop(w, existing, k + 1, subdomain, target, record_type)
  ELSE IF existing[k].target = target
    THEN [w |-> Say(w, "already_exists"), returned |-> TRUE]
  ELSE AddLoop(delete_record(Say(w, "different_target"), subdomain, record_type).w,
               existing, k + 1, subdomain, target, record_type)

\* CreateResponse with refresh_zone called whatever the status of the POST.
CreateResponse_refresh_always(r) ==
  IF r.exc # "none" THEN [w |-> r, ret |-> FALSE]
  ELSE IF r.status \in {200, 201}
    THEN Returned(refresh_zone(Say(r, "added")).w, TRUE)
  ELSE Returned(refresh_zone(Say(r, "error_adding")).w, FALSE)

\* if response.status_code in [200, 201]: ... refresh_zone ... else: ...
CreateResponse(r) ==
  IF r.exc # "none" THEN [w |-> r, ret |-> FALSE]
  ELSE IF r.status \in {200, 201}
    THEN Returned(refresh_zone(Say(r, "added")).w, TRUE)
  ELSE [w |-> Say(r, "error_adding"), ret |-> FALSE]

AddNew(a, subdomain, target, record_type) ==
  IF a.w.exc # "none" THEN [w |-> a.w, ret |-> FALSE]
  ELSE IF a.returned THEN [w |-> a.w, ret |-> TRUE]
  ELSE CreateResponse(
         ovh_call(a.w, "POST", "create",
                  [fieldType |-> record_type, subDomain |-> subdomain,
                   target |-> target, ttl |-> DefaultTtl]))

AddListed(l, subdomain, target, record_type) ==
  AddNew(AddLoop(l.w, l.ret, 1, subdomain, target, record_type),
         subdomain, target, record_type)

add_record(w, subdomain, target, record_type) ==
  AddListed(list_records(w, record_type, subdomain), subdomain, target, record_type)

\* ---------------------------------------------------------- get_server_ip
\* str.strip(): drop the whitespace at both ends.
RECURSIVE StripLeft(_)
StripLeft(t) ==
  IF t # << >> /\ Head(t) = " " THEN StripLeft(Tail(t)) ELSE t

RECURSIVE StripRight(_)
StripRight(t) ==
  IF t # << >> /\ t[Len(t)] = " "
    THEN StripRight(SubSeq(t, 1, Len(t) - 1)) ELSE t

Strip(t) == StripRight(StripLeft(t))

\* What an echo service does with one request: it answers with a 2xx status
\* ("ok"), answers with another status ("non2xx"), or the request raises
\* ("exc": timeout, network error).
Services ==
  {[kind |-> k, body |-> b] : k \in {"ok", "non2xx"}, b \in SeqsUpTo(Chars, MaxBody)}
    \cup {[kind |-> "exc", body |-> NoText]}

\* some = FALSE is Python's None.
get_server_ip(primary, secondary) ==
  IF primary.kind # "exc"
    THEN [some |-> TRUE, text |-> Strip(primary.body), calls |-> <<"primary">>]
  ELSE IF secondary.kind # "exc"
    THEN [some |-> TRUE, text |-> Strip(secondary.body),
          calls |-> <<"primary", "secondary">>]
  ELSE [some |-> FALSE, text |-> NoText, calls |-> <<"primary", "secondary">>]

\* ----------------------------------------------------------- check_record
check_record(w, dnsOk) ==
  IF dnsOk THEN Say(w, "dns_resolved") ELSE Say(w, "dns_failed")

\* ------------------------------------------------------------------- main
\* Exit status of the process: sys.exit(1) and an uncaught exception give 1.
ExitOf(w) == IF w.exc = "none" THEN 0 ELSE 1

\* parser.error(...) prints the usage and exits with status 2.
ParserError(w) == [w |-> Say(w, "usage_error"), exit |-> 2, ipCalls |-> << >>]

\* The exit status after an operation that returned or raised.
Exited(r, ipCalls) == [w |-> r.w, exit |-> ExitOf(r.w), ipCalls |-> ipCalls]

\* if not records: print("No records found ...") else the table
ListAction(l) ==
  [w |-> IF l.w.exc # "none" THEN l.w
         ELSE IF l.ret = << >> THEN Say(l.w, "no_records")
         ELSE Say(l.w, "table"),
   exit |-> ExitOf(l.w), ipCalls |-> << >>]

\* AddWithServerIp without the sys.exit(1) after "Could not determine IP address".
AddWithServerIp_no_exit(w, g, subdomain, type) ==
  IF ~(g.some /\ g.text # NoText)
    THEN [w |-> Say(w, "ip_error"), exit |-> 0, ipCalls |-> g.calls]
  ELSE Exited(add_record(w, subdomain, g.text, type), g.calls)

\* target = get_server_ip(); if not target: sys.exit(1); add_record(...)
AddWithServerIp(w, g, subdomain, type) ==
  IF ~(g.some /\ g.text # NoText)
    THEN [w |-> Say(w, "ip_error"), exit |-> 1, ipCalls |-> g.calls]
  ELSE Exited(add_record(w, subdomain, g.text, type), g.calls)

IpAction(w, g) ==
  [w |-> Say(w, IF g.some /\ g.text # NoText THEN "server_ip" ELSE "ip_unknown"),
   exit |-> 0, ipCalls |-> g.calls]

main(w, action, subdomain, domainSet, ip, type, primary, secondary, dnsOk) ==
  IF action = "ip" THEN IpAction(w, get_server_ip(primary, secondary))
  ELSE IF ~domainSet THEN ParserError(w)
  ELSE IF action = "list" THEN ListAction(list_records(w, "", subdomain))
  ELSE IF subdomain = NoText THEN ParserError(w)
  ELSE IF action = "add"
    THEN IF type = "CNAME"
           THEN Exited(add_record(w, subdomain, IF ip # NoText THEN ip ELSE DomainDot, type), << >>)
         ELSE IF ip # NoText
           THEN Exited(add_record(w, subdomain, ip, type), << >>)
         ELSE AddWithServerIp(w, get_server_ip(primary, secondary), subdomain, type)
  ELSE IF action = "delete"
    THEN Exited(delete_record(w, subdomain, type), << >>)
  ELSE [w |-> check_record(w, dnsOk), exit |-> 0, ipCalls |-> << >>]

\* ---------------------------------------------------------- state machine
\* zone, nextId : the provider's zone and the id it gives the next record
\* creds        : whether the three OVH_* keys are in the environment
\* initUnique   : whether the initial zone had one record per (subdomain, type)
\* last         : the observation of the latest invocation
\* The tool is single-shot: a behaviour is one invocation from a zone the
\* provider may hold (the provider does not keep (subdomain, type) unique).
VARIABLES zone, nextId, creds, initUnique, last

vars == <<zone, nextId, creds, initUnique, last>>

Unique(z) ==
  \A r1, r2 \in z :
    (r1.subDomain = r2.subDomain /\ r1.fieldType = r2.fieldType) => r1 = r2

Shapes == Subdomains \X Types \X Targets

ZonesUpTo(n) ==
  {{Rec(i, q[i][1], q[i][2], q[i][3]) : i \in DOMAIN q} : q \in SeqsUpTo(Shapes, n)}

NoService == [kind |-> "exc", body |-> NoText]

Blank ==
  [op |-> "none", sub |-> NoText, type |-> "", target |-> NoText,
   ret |-> FALSE, listed |-> << >>, trace |-> << >>, out |-> << >>,
   exc |-> "none", before |-> {}, exit |-> 0, repeat |-> FALSE,
   domainSet |-> TRUE, primary |-> NoService, secondary |-> NoService,
   ipSome |-> FALSE, ipText |-> NoText, ipCalls |-> << >>,
   prevTrace |-> << >>]

Created(trace) ==
  \E i \in DOMAIN trace : trace[i].k = "create" /\ trace[i].st = StatusOk

InitWith(zones) ==
  /\ zone \in zones
  /\ nextId = Cardinality(zone) + 1
  /\ creds \in BOOLEAN
  /\ initUnique = Unique(zone)
  /\ last = Blank

Init == InitWith(ZonesUpTo(MaxInitRecords))

Observe(op, sub, type, target, w, ret, listed) ==
  [Blank EXCEPT !.op = op, !.sub = sub, !.type = type, !.target = target,
                !.ret = ret, !.listed = listed, !.trace = w.trace,
                !.out = w.out, !.exc = w.exc, !.before = zone,
                !.exit = ExitOf(w)]

Commit(w) ==
  /\ zone' = w.zone
  /\ nextId' = w.nextId
  /\ UNCHANGED <<creds, initUnique>>

\* The invocation's effect on the zone and what was observed of it.
Done(op, sub, type, target, r, listed, again, prevTrace) ==
  /\ Commit(r.w)
  /\ last' = [Observe(op, sub, type, target, r.w, r.ret, listed)
                EXCEPT !.repeat = again, !.prevTrace = prevTrace]

AddRecord ==
  /\ last.op = "none"
  /\ \E subdomain \in ArgSubdomains, record_type \in Types, target \in Targets,
        faults \in FaultPlans :
       Done("add", subdomain, record_type, target,
            add_record(World(zone, nextId, creds, faults), subdomain, target, record_type),
            list_records(World(zone, nextId, creds, faults), record_type, subdomain).ret,
            FALSE, << >>)

DeleteRecord ==
  /\ last.op = "none"
  /\ \E subdomain \in ArgSubdomains, record_type \in Types, faults \in FaultPlans :
       Done("delete", subdomain, record_type, NoText,
            delete_record(World(zone, nextId, creds, faults), subdomain, record_type),
            list_records(World(zone, nextId, creds, faults), record_type, subdomain).ret,
            FALSE, << >>)

DoneList(sub, type, r) ==
  /\ Commit(r.w)
  /\ last' = Observe("list", sub, type, NoText, r.w, FALSE, r.ret)

ListRecords ==
  /\ last.op = "none"
  /\ \E subdomain \in Subdomains, faults \in FaultPlans :
     \E record_type \in (IF subdomain = NoText THEN {""} ELSE Types \cup {""}) :
       DoneList(subdomain, record_type,
                list_records(World(zone, nextId, creds, faults), record_type, subdomain))

Next == AddRecord \/ DeleteRecord \/ ListRecords

Spec == Init /\ [][Next]_vars

\* add_record a second time with the arguments of an add_record that has
\* just created its record, nothing else touching the zone in between.
AddAgain ==
  /\ last.op = "add" /\ ~last.repeat
  /\ last.ret /\ Created(last.trace)
  /\ \E faults \in FaultPlans :
       Done("add", last.sub, last.type, last.target,
            add_record(World(zone, nextId, creds, faults), last.sub, last.target, last.type),
            list_records(World(zone, nextId, creds, faults), last.type, last.sub).ret,
            TRUE, last.trace)

NextTwice == AddRecord \/ AddAgain

SpecTwice == Init /\ [][NextTwice]_vars

\* The public-IP resolver on its own.
InitIp == InitWith({{}})

DoneIp(primary, secondary, g) ==
  /\ last' = [Blank EXCEPT !.op = "ip", !.primary = primary,
                           !.secondary = secondary, !.ipSome = g.some,
                           !.ipText = g.text, !.ipCalls = g.calls]
  /\ UNCHANGED <<zone, nextId, creds, initUnique>>

GetServerIp ==
  /\ last.op = "none"
  /\ \E primary \in Services, secondary \in Services :
       DoneIp(primary, secondary, get_server_ip(primary, secondary))

NextIp == GetServerIp

SpecIp == InitIp /\ [][NextIp]_vars

\* One run of the command line.
Actions == {"add", "list", "delete", "check", "ip"}

\* The echo services as main meets them: bodies of at most one character.
MainServices == {s \in Services : Len(s.body) <= 1}

InitMain == InitWith(ZonesUpTo(MaxMainRecords))

DoneMain(action, subdomain, domainSet, ip, type, primary, secondary, r) ==
  /\ Commit(r.w)
  /\ last' = [Observe(action, subdomain, type, ip, r.w, FALSE, << >>)
                EXCEPT !.exit = r.exit, !.domainSet = domainSet,
                       !.primary = primary, !.secondary = secondary,
                       !.ipCalls = r.ipCalls]

Main ==
  /\ last.op = "none"
  /\ \E action \in Actions, domainSet \in BOOLEAN :
     \E subdomain \in (IF action = "ip" THEN {NoText} ELSE Subdomains),
        type \in (IF action \in {"add", "delete"} THEN Types ELSE {"CNAME"}),
        ip \in (IF action = "add" THEN Targets \cup {NoText} ELSE {NoText}),
        faults \in (IF action \in {"add", "list", "delete"} THEN FaultPlans ELSE {{}}),
        dnsOk \in (IF action = "check" THEN BOOLEAN ELSE {TRUE}) :
     \E primary, secondary \in
          (IF action = "ip" \/ (action = "add" /\ type = "A" /\ ip = NoText)
             THEN MainServices ELSE {NoService}) :
       DoneMain(action, subdomain, domainSet, ip, type, primary, secondary,
                main(World(zone, nextId, creds, faults), action, subdomain, domainSet,
                     ip, type, primary, secondary, dnsOk))

NextMain == Main

SpecMain == InitMain /\ [][NextMain]_vars

\* ================================================================ claims
Kinds(trace) == [i \in DOMAIN trace |-> trace[i].k]

IsMutating(c) == c.m \in {"POST", "PUT", "DELETE"}

MutatingKinds(trace) == Kinds(SelectSeq(trace, IsMutating))

CountKind(trace, k) == Cardinality({i \in DOMAIN trace : trace[i].k = k})

AllAnswered200(trace) == \A i \in DOMAIN trace : trace[i].st = StatusOk

ListingOk(trace) ==
  \A i \in DOMAIN trace : trace[i].k \in {"list", "detail"} => trace[i].st = StatusOk

Said(msg) == \E i \in DOMAIN last.out : last.out[i] = msg

Matching(z, sub, type) == {r \in z : r.subDomain = sub /\ r.fieldType = type}

\* ---- C1 (SpecTwice)
\* C1: add_record called a second time with the arguments of a call that
\* created the record, every listing call of both invocations answering 200,
\* says "already exists", returns True and issues no POST, PUT or DELETE.
C1_SecondAddIsNoOp ==
  (/\ last.op = "add" /\ last.repeat
   /\ ListingOk(last.prevTrace) /\ ListingOk(last.trace)
   /\ last.exc = "none")
  => (/\ last.ret
      /\ Said("already_exists")
      /\ MutatingKinds(last.trace) = << >>)

\* ---- C2 (Spec)
OneOtherTarget ==
  /\ last.op = "add" /\ creds /\ last.exc = "none"
  /\ AllAnswered200(last.trace)
  /\ Cardinality(Matching(last.before, last.sub, last.type)) = 1
  /\ \A r \in Matching(last.before, last.sub, last.type) : r.target # last.target

\* C2 as stated: updating the one record of a (subdomain, type) pair issues
\* exactly one DELETE, then exactly one create POST, and exactly one refresh
\* POST in the whole invocation.
C2_OneDeleteOneCreateOneRefresh ==
  OneOtherTarget =>
    (/\ CountKind(last.trace, "delete") = 1
     /\ CountKind(last.trace, "create") = 1
     /\ CountKind(last.trace, "refresh") = 1
     /\ \A i, j \in DOMAIN last.trace :
          (last.trace[i].k = "delete" /\ last.trace[j].k = "create") => i < j)

\* C2 amended: the mutating calls of that invocation are, in order, one
\* DELETE, the refresh POST of delete_record, one create POST, and the
\* refresh POST of add_record: two refresh calls, not one.
C2_DeleteRefreshCreateRefresh ==
  OneOtherTarget =>
    MutatingKinds(last.trace) = <<"delete", "refresh", "create", "refresh">>

C2_Witness ==
  /\ OneOtherTarget
  /\ CountKind(last.trace, "refresh") = 2
  /\ Cardinality(zone) = Cardinality(last.before)

\* ---- C3 (Spec)
\* C3: from a zone with at most one record per (subdomain, type), the zone
\* after an add_record or delete_record, provider errors included, still
\* has at most one record per (subdomain, type).
C3_UniquenessPreserved ==
  (initUnique /\ last.op \in {"add", "delete"} /\ last.exc = "none") => Unique(zone)

\* ---- C4 (Spec)
\* C4 as stated: in add_record a successful create POST is followed by a
\* refresh, and when the create POST is answered with an error status the
\* error is reported and the invocation issues no refresh call at all.
C4_NoRefreshWhenCreateFails ==
  (last.op = "add" /\ last.exc = "none") =>
    \A i \in DOMAIN last.trace :
      last.trace[i].k = "create" =>
        /\ last.trace[i].st = StatusOk =>
             (i + 1 \in DOMAIN last.trace /\ last.trace[i + 1].k = "refresh")
        /\ last.trace[i].st = StatusErr =>
             (Said("error_adding") /\ CountKind(last.trace, "refresh") = 0)

\* C4 amended: a successful create POST is immediately followed by a refresh;
\* a create POST answered with an error status is the last call of the
\* invocation and the error is reported; every refresh issued before the
\* create POST is the one delete_record issues after a DELETE that succeeded.
C4_NoRefreshAfterFailedCreate ==
  (last.op = "add" /\ last.exc = "none") =>
    \A i \in DOMAIN last.trace :
      last.trace[i].k = "create" =>
        /\ last.trace[i].st = StatusOk =>
             (i + 1 \in DOMAIN last.trace /\ last.trace[i + 1].k = "refresh")
        /\ last.trace[i].st = StatusErr =>
             (/\ i = Len(last.trace)
              /\ last.out[Len(last.out)] = "error_adding"
              /\ ~last.ret)
        /\ \A j \in 1..(i - 1) :
             last.trace[j].k = "refresh" =>
               \E d \in 1..(j - 1) :
                 /\ last.trace[d].k = "delete" /\ last.trace[d].st = StatusOk
                 /\ \A e \in (d + 1)..(j - 1) : last.trace[e].k = "delete"

C4_Witness ==
  /\ last.op = "add" /\ last.exc = "none" /\ ~last.ret
  /\ last.trace # << >>
  /\ last.trace[Len(last.trace)].k = "create"
  /\ last.trace[Len(last.trace)].st = StatusErr
  /\ CountKind(last.trace, "refresh") = 1

\* ---- C5 (Spec)
\* C5: delete_record whose listing returned no record issues no DELETE,
\* says "not found" and returns False.
C5_DeleteNothingFound ==
  (last.op = "delete" /\ last.exc = "none" /\ last.listed = << >>) =>
    (/\ CountKind(last.trace, "delete") = 0
     /\ Said("not_found")
     /\ ~last.ret
     /\ zone = last.before)

C5_Witness ==
  /\ last.op = "delete" /\ last.exc = "none" /\ last.listed = << >>
  /\ Said("not_found")
  /\ last.trace # << >>
  /\ AllAnswered200(last.trace)

\* ---- C6 (SpecIp)
ServiceFailed(s) == s.kind # "ok"

\* C6: get_server_ip asks the secondary service whenever the primary failed
\* (raised or answered non-2xx), returns None exactly when both failed, and
\* what it returns is the stripped body of a 2xx answer.
C6_FallbackOnAnyFailure ==
  last.op = "ip" =>
    (/\ ServiceFailed(last.primary) => last.ipCalls = <<"primary", "secondary">>
     /\ ~last.ipSome <=> (ServiceFailed(last.primary) /\ ServiceFailed(last.secondary))
     /\ last.ipSome =>
          \/ ~ServiceFailed(last.primary) /\ last.ipText = Strip(last.primary.body)
          \/ /\ ServiceFailed(last.primary) /\ ~ServiceFailed(last.secondary)
             /\ last.ipText = Strip(last.secondary.body))

\* ---- C7 (Spec)
\* C7: list_records never raises, and whenever one of its calls (the id
\* listing or a detail fetch) does not answer 200 it returns the empty
\* sequence.
C7_ListEmptyOnAnyError ==
  (last.op = "list" /\ creds) =>
    (/\ last.exc = "none"
     /\ ~AllAnswered200(last.trace) => last.listed = << >>)

\* ---- C8 (SpecMain)
ValidationError ==
  /\ last.op # "ip"
  /\ \/ ~last.domainSet
     \/ last.op \in {"add", "delete", "check"} /\ last.sub = NoText

Resolved ==
  \/ last.primary.kind # "exc" /\ Strip(last.primary.body) # NoText
  \/ /\ last.primary.kind = "exc" /\ last.secondary.kind # "exc"
     /\ Strip(last.secondary.body) # NoText

MissingIp ==
  /\ last.op = "add" /\ ~ValidationError
  /\ last.type # "CNAME" /\ last.target = NoText
  /\ ~Resolved

CallsProvider == last.op \in {"add", "list", "delete"}

Raised(trace) == \E i \in DOMAIN trace : trace[i].st = 0

\* C8 as stated: the exit code is 1 on a validation error or a missing IP
\* for an A-record add and 0 in every other outcome, missing credentials and
\* provider failures included.
C8_ExitOneOrZero ==
  last.op \in Actions =>
    last.exit = (IF ValidationError \/ MissingIp THEN 1 ELSE 0)

\* C8 amended: the exit code is 2 on a validation error (argparse's
\* parser.error); otherwise 1 on a missing IP for an A-record add, on missing
\* credentials when the action calls the provider, and when a provider call
\* raises; and 0 in every other outcome, error statuses from the provider
\* included.
C8_ExitCodes ==
  last.op \in Actions =>
    last.exit = (IF ValidationError THEN 2
                 ELSE IF MissingIp THEN 1
                 ELSE IF CallsProvider /\ ~creds THEN 1
                 ELSE IF Raised(last.trace) THEN 1
                 ELSE 0)

C8_Witness ==
  /\ last.op = "list" /\ ~ValidationError /\ ~creds
  /\ last.exit = 1
  /\ Said("creds_missing")

\* ---- C9 (Spec)
\* C9: when add_record returns True the zone holds a record with that
\* subdomain, type and target, whatever the initial zone.
C9_TrueMeansPresent ==
  (last.op = "add" /\ last.exc = "none" /\ last.ret) =>
    \E r \in Matching(zone, last.sub, last.type) : r.target = last.target

\* ---- C10 (Spec)
\* C10: when add_record returns False because the create POST was answered
\* with an error status, the zone is what it was before the call.
C10_FailedAddKeepsZone ==
  (/\ last.op = "add" /\ last.exc = "none" /\ ~last.ret
   /\ CountKind(last.trace, "create") = 1)
  => zone = last.before

====
